---------------------------- MODULE Spec2Model ----------------------------
(***************************************************************************)
(* Model of rides_env: LSSDPInstance.from_network (lssdp.py) and the       *)
(* LSSDPSolution evaluation loop (solution.py; lssdp.py carries a copy).   *)
(*                                                                         *)
(* Numbers.  Times, demands and flows are integers (minutes, trips).       *)
(* Quotients the code computes in floating point (frequencies, obj,        *)
(* rel_ttd) are exact rationals <<num, den>> in lowest terms, den > 0;     *)
(* a zero divisor gives <<sign, 0>> (numpy's inf, or nan for 0/0).         *)
(***************************************************************************)
EXTENDS Integers, Sequences, FiniteSets, TLC

VARIABLES
    inst,         \* the LSSDPInstance shared by the Solutions (NoInst before synthesis)
    sols,         \* Solution id -> LSSDPSolution fields
    gen,          \* from_network: its arguments and its outcome
    oracleCalls,  \* the tram calls made by the most recent operation
    tripCalls,    \* the trip_time computations of the most recent operation:
                  \* the stop sequences it summed over, in order
    lastOp,       \* the most recent operation
    ret,          \* what the most recent operation returned (or raised)
    pre,          \* history: the Solution operated on, as it was before lastOp
    built,        \* history: the Instance as it was constructed
    alone,        \* history: Solution id -> the Solution and the Instance it would
                  \* have, had its operations run with no other Solution around
    ops,          \* operations performed so far, counted only when the Instance is shared
    hist          \* history: the operations since construction, while they are
                  \* few, of a Solution that has its Instance to itself

vars == <<inst, sols, gen, oracleCalls, tripCalls, lastOp, ret, pre, built, alone, ops, hist>>

-----------------------------------------------------------------------------
(* Bounds of the model *)

NStops == 4
MaxBuses == 3
MaxOps == 4
MaxHist == 3

Stops == 0 .. (NStops - 1)

-----------------------------------------------------------------------------
(* Arithmetic *)

Abs(x) == IF x < 0 THEN -x ELSE x

Sign(x) == IF x < 0 THEN -1 ELSE IF x > 0 THEN 1 ELSE 0

RECURSIVE GCD(_, _)
GCD(a, b) == IF b = 0 THEN a ELSE GCD(b, a % b)

\* n / d as the floating-point division the code performs
Rat(n, d) ==
    IF d = 0 THEN <<Sign(n), 0>>
    ELSE LET g == GCD(Abs(n), Abs(d))
             s == Sign(d)
         IN  <<(s * n) \div g, (s * d) \div g>>

One == <<1, 1>>
Zero == <<0, 1>>

RatLeq(p, q) == p[1] * q[2] <= q[1] * p[2]

RatAdd(p, q) == Rat(p[1] * q[2] + q[1] * p[2], p[2] * q[2])

CeilDiv(a, b) == (a + b - 1) \div b

FloorDiv(a, b) == a \div b

RECURSIVE SumSeq(_)
SumSeq(s) == IF s = <<>> THEN 0 ELSE Head(s) + SumSeq(Tail(s))

\* the sum of f[x] over x in S
RECURSIVE SumOver(_, _)
SumOver(f, S) ==
    IF S = {} THEN 0
    ELSE LET x == CHOOSE y \in S : TRUE IN f[x] + SumOver(f, S \ {x})

MinSet(S) == CHOOSE x \in S : \A y \in S : x <= y

MaxSet(S) == CHOOSE x \in S : \A y \in S : y <= x

Range(s) == {s[k] : k \in DOMAIN s}

\* the spacing of float32 values around the integer x >= 0
RECURSIVE Ulp(_)
Ulp(x) == IF x < 16777216 THEN 1 ELSE 2 * Ulp(x \div 2)

\* numpy's astype(float32) / asarray(dtype=float32) on an integer value:
\* exact up to 2^24, rounded to a 24-bit significand (ties to even) beyond
Float32(x) ==
    LET u == Ulp(Abs(x))
        q == Abs(x) \div u
        r == Abs(x) % u
        up == 2 * r > u \/ (2 * r = u /\ q % 2 = 1)
    IN  Sign(x) * u * (IF up THEN q + 1 ELSE q)

Float32Mat(m) == [i \in DOMAIN m |-> [j \in DOMAIN m[i] |-> Float32(m[i][j])]]

Float32Vec(v) == [k \in DOMAIN v |-> Float32(v[k])]

\* np.triu(m, 1): the strict upper triangle, zero on and below the diagonal
Triu1(m, zero) == [i \in DOMAIN m |-> [j \in DOMAIN m[i] |-> IF i < j THEN m[i][j] ELSE zero]]

\* np.ones_like(m)
OnesLike(m) == [i \in DOMAIN m |-> [j \in DOMAIN m[i] |-> One]]

\* np.zeros_like(m)
ZerosLike(m) == [i \in DOMAIN m |-> [j \in DOMAIN m[i] |-> Zero]]

UpperPairs == {p \in Stops \X Stops : p[1] < p[2]}

-----------------------------------------------------------------------------
(* utils: trip_time *)

\* sum(travel_time[from_][to_] for from_, to_ in zip(stops[:-1], stops[1:]))
trip_time(travel_time, stops) ==
    SumSeq([k \in 1 .. (IF Len(stops) = 0 THEN 0 ELSE Len(stops) - 1) |->
                travel_time[stops[k]][stops[k + 1]]])

\* StopSequence(list(range(nstops)))
ass_stops == [k \in 1 .. NStops |-> k - 1]

ass_trip_time(travel_time) == trip_time(travel_time, ass_stops)

-----------------------------------------------------------------------------
(* tram: the passenger-assignment oracle.  It is an external package; this *)
(* is a small deterministic assignment with the interface the callers use: *)
(* (alignments, frequencies, travel_time, demand[, capacity, max_iters])   *)
(* -> (ttd matrix, flow vector with 3 entries per link of each alignment,  *)
(* total cost).  Every OD pair rides the alignment with the least wait     *)
(* plus in-vehicle time; an OD pair nobody serves has ttd 0.               *)

\* f with every value computed
Tabulated(f) == f @@ <<>>

Pos(a, s) == CHOOSE k \in DOMAIN a : a[k] = s

Serves(a, f, i, j) ==
    /\ f[1] > 0 /\ f[2] > 0
    /\ i \in Range(a) /\ j \in Range(a)

\* the wait for alignment a, of frequency f, and the ride on it from i to j
Journey(a, f, tt, i, j) ==
    CeilDiv(f[2], f[1]) + trip_time(tt, SubSeq(a, Pos(a, i), Pos(a, j)))

\* per OD pair: the journey time on each alignment serving it
Journeys(als, fs, tt) ==
    Tabulated([p \in UpperPairs |->
        Tabulated([k \in {n \in DOMAIN als : Serves(als[n], fs[n], p[1], p[2])} |->
            Journey(als[k], fs[k], tt, p[1], p[2])])])

\* per OD pair: the alignment it rides (0: none); ties go to the first alignment
Assignment(jn) ==
    Tabulated([p \in UpperPairs |->
        IF DOMAIN jn[p] = {} THEN 0
        ELSE MinSet({k \in DOMAIN jn[p] : \A n \in DOMAIN jn[p] : jn[p][k] <= jn[p][n]})])

OracleTtd(jn, asg) ==
    [i \in Stops |-> [j \in Stops |->
        IF i < j /\ asg[<<i, j>>] # 0 THEN jn[<<i, j>>][asg[<<i, j>>]] ELSE 0]]

\* boarding, riding and alighting flow on link l of alignment k
LinkFlow(asg, a, demand, k, l) ==
    LET mine == {p \in UpperPairs : asg[p] = k}
        d == [p \in mine |-> demand[p[1]][p[2]]]
    IN  << SumOver(d, {p \in mine : p[1] = a[l]}),
           SumOver(d, {p \in mine : p[1] <= a[l] /\ p[2] >= a[l + 1]}),
           SumOver(d, {p \in mine : p[2] = a[l + 1]}) >>

RECURSIVE AlignmentFlow(_, _, _, _, _)
AlignmentFlow(asg, a, demand, k, l) ==
    IF l >= Len(a) THEN <<>>
    ELSE LinkFlow(asg, a, demand, k, l) \o AlignmentFlow(asg, a, demand, k, l + 1)

RECURSIVE OracleFlow(_, _, _, _)
OracleFlow(asg, als, demand, k) ==
    IF k > Len(als) THEN <<>>
    ELSE AlignmentFlow(asg, als[k], demand, k, 1) \o OracleFlow(asg, als, demand, k + 1)

OracleCost(ttd, demand) ==
    SumOver([p \in UpperPairs |-> demand[p[1]][p[2]] * ttd[p[1]][p[2]]], UpperPairs)

mat_linear_assign(alignments, frequencies, travel_time, demand) ==
    LET jn == Journeys(alignments, frequencies, travel_time)
        asg == Assignment(jn)
        ttd == Tabulated(OracleTtd(jn, asg))
    IN  << ttd, OracleFlow(asg, alignments, demand, 1), OracleCost(ttd, demand) >>

\* the congested variant adds a crowding penalty for flow above capacity,
\* found in at most max_iters iterations
mat_linear_congested_assign(alignments, frequencies, travel_time, demand, capacity, max_iters) ==
    LET out == mat_linear_assign(alignments, frequencies, travel_time, demand)
        over == SumSeq([k \in DOMAIN out[2] |->
                          IF out[2][k] > capacity THEN out[2][k] - capacity ELSE 0])
    IN  << out[1], out[2], out[3] + (IF over > max_iters THEN max_iters ELSE over) >>

\* the record of one call, as the callers spell it
UncongestedCall(alignments, frequencies, travel_time, demand) ==
    [ fn |-> "mat_linear_assign", alignments |-> alignments,
      frequencies |-> frequencies, travel_time |-> travel_time, demand |-> demand ]

CongestedCall(alignments, frequencies, travel_time, demand, capacity, max_iters) ==
    [ fn |-> "mat_linear_congested_assign", alignments |-> alignments,
      frequencies |-> frequencies, travel_time |-> travel_time, demand |-> demand,
      capacity |-> capacity, max_iters |-> max_iters ]

\* what the oracle returns for a recorded call
Answer(call) ==
    IF call.fn = "mat_linear_congested_assign"
    THEN mat_linear_congested_assign(call.alignments, call.frequencies,
             call.travel_time, call.demand, call.capacity, call.max_iters)
    ELSE mat_linear_assign(call.alignments, call.frequencies,
             call.travel_time, call.demand)

-----------------------------------------------------------------------------
(* lssdp.py: LSSDPInstance *)

NoInst == [name |-> "no instance"]

DefaultMaxIters == 10000

\* LSSDPInstance.__init__
LSSDPInstance(travel_time, demand, nbuses, capacity, congested, base_ttd, base_flow, base_obj, max_iters, name) ==
    [ travel_time |-> travel_time, demand |-> demand, nbuses |-> nbuses,
      capacity |-> capacity, congested |-> congested,
      base_ttd |-> base_ttd, base_flow |-> base_flow, base_obj |-> base_obj,
      max_iters |-> max_iters, name |-> name, id |-> <<>> ]

\* arr.flatten().tolist(): the rows of the matrix one after the other
Flatten(m) == [k \in 1 .. (NStops * NStops) |-> m[(k - 1) \div NStops][(k - 1) % NStops]]

\* hash(tuple(values)): Python's hash of a tuple of floats, a function of the
\* values and their order alone (a small polynomial hash stands for it)
RECURSIVE TupleHash(_)
TupleHash(vals) ==
    IF vals = <<>> THEN 7
    ELSE (31 * TupleHash(SubSeq(vals, 1, Len(vals) - 1)) + vals[Len(vals)] + 1) % 65521

\* one hex digit of the digest of the message msg (a stand-in for sha256:
\* every digit depends on every part of the message)
RECURSIVE HexDigit(_, _)
HexDigit(msg, k) ==
    IF msg = <<>> THEN k
    ELSE ((k + 16) * HexDigit(SubSeq(msg, 1, Len(msg) - 1), k) + msg[Len(msg)]) % 65521

\* hashlib.sha256 fed the parts of msg; hexdigest(): 64 hex digits
HexDigest(msg) == [k \in 1 .. 64 |-> HexDigit(msg, k) % 16]

\* calculate_id hashing the congested flag as well
calculate_id_hashing_congested(self) ==
    [self EXCEPT !.id =
        SubSeq(HexDigest(<< TupleHash(Flatten(self.travel_time)),
                            TupleHash(Flatten(self.demand)),
                            self.nbuses, self.capacity,
                            IF self.congested THEN 1 ELSE 0 >>), 1, 10)]

\* LSSDPInstance.calculate_id: the first 10 hex digits of the sha256 of the
\* hashes of the two flattened matrices, the bus count and the capacity
calculate_id(self) ==
    [self EXCEPT !.id =
        SubSeq(HexDigest(<< TupleHash(Flatten(self.travel_time)),
                            TupleHash(Flatten(self.demand)),
                            self.nbuses, self.capacity >>), 1, 10)]

\* network.sample_real_route: the distance matrix (metres) of a route whose
\* stops lie `spacing` apart, and its name
sample_real_route(spacing, name) ==
    [ distance |-> [i \in Stops |-> [j \in Stops |-> spacing * Abs(i - j)]],
      info |-> [name |-> name] ]

\* rng.integers(low, high=high): the values a draw can take; none when low >= high
RngIntegers(low, high) == low .. (high - 1)

\* the draw with the upper end of the range one too high
BusDrawsHighOffByOne(trip, min_headway, max_headway) ==
    RngIntegers(CeilDiv(trip, max_headway), FloorDiv(trip, min_headway) + 2)

\* the bus counts from_network can draw
BusDraws(trip, min_headway, max_headway) ==
    RngIntegers(CeilDiv(trip, max_headway), FloorDiv(trip, min_headway) + 1)

\* np.triu(distance / speed / 1000 * 60 + dwell_time, 1)
TravelTimeOf(distance, speed, dwell_time) ==
    Triu1([i \in Stops |-> [j \in Stops |->
              (distance[i][j] * 60) \div (speed * 1000) + dwell_time]], 0)

\* the demand matrix: random noise (plus peaks) `noise`, its strict upper
\* triangle divided by its maximum and scaled by
\* rng.random() * capacity * max_od_demand / (nstops + 1 - origin)
DemandOf(noise, scale) ==
    LET up == Triu1(noise, 0)
        mx == MaxSet({up[p[1]][p[2]] : p \in Stops \X Stops})
    IN  [i \in Stops |-> [j \in Stops |->
            (up[i][j] * scale) \div (mx * (NStops + 1 - i))]]

\* the noise rng.random(size=(n, n)) plus the gaussian peaks: flat, or peaked
Noise(peaks) ==
    [i \in Stops |-> [j \in Stops |-> 1 + (IF Abs(i - 1) + Abs(j - 2) < peaks THEN 2 ELSE 0)]]

\* the baseline oracle call of from_network
BaselineCall(a, travel_time, demand, nbuses) ==
    LET freqs == << Rat(nbuses, ass_trip_time(travel_time)) >>
    IN  IF a.congested
        THEN CongestedCall(<<ass_stops>>, freqs, travel_time, demand, a.capacity, a.max_iters)
        ELSE UncongestedCall(<<ass_stops>>, freqs, travel_time, demand)

\* LSSDPInstance.from_network, given its arguments and the bus count drawn:
\* the Instance returned, the oracle calls made and the trip times computed
\* (for the bus count, and for the baseline frequency)
from_network(a, inst_nbuses) ==
    LET route == sample_real_route(a.spacing, a.name)
        travel_time == TravelTimeOf(route.distance, a.speed, a.dwell_time)
        demand == DemandOf(Noise(a.peaks), a.scale)
        made == LSSDPInstance(Float32Mat(travel_time), Float32Mat(demand), inst_nbuses,
                              a.capacity, a.congested, <<>>, <<>>, 0, DefaultMaxIters, "")
        call == BaselineCall(a, travel_time, demand, inst_nbuses)
        out == Answer(call)
    IN  [ inst |-> calculate_id([made EXCEPT !.base_ttd = Float32Mat(out[1]),
                                             !.base_flow = Float32Vec(out[2]),
                                             !.base_obj = out[3],
                                             !.name = route.info.name]),
          calls |-> <<call>>,
          trips |-> << ass_stops, ass_stops >> ]

\* the trip time from_network draws the bus count for
GenTripTime(a) ==
    ass_trip_time(TravelTimeOf(sample_real_route(a.spacing, a.name).distance,
                               a.speed, a.dwell_time))

-----------------------------------------------------------------------------
(* entities.py: Service (not among the sources; from the specification)    *)

\* Service(nstops=..., nbuses=...): no stop, the buses given
Service(nstops, nbuses) == [stops |-> <<>>, nbuses |-> nbuses]

\* the sorted sequence of a set of stops
RECURSIVE SortedSeq(_)
SortedSeq(S) ==
    IF S = {} THEN <<>>
    ELSE LET m == MinSet(S) IN <<m>> \o SortedSeq(S \ {m})

\* Service.toggle: remove the stop if present, insert it in order if absent
ServiceToggle(svc, stop) ==
    [svc EXCEPT !.stops =
        IF stop \in Range(svc.stops)
        THEN SortedSeq(Range(svc.stops) \ {stop})
        ELSE SortedSeq(Range(svc.stops) \cup {stop})]

\* Service.add_bus
ServiceAddBus(svc) == [svc EXCEPT !.nbuses = svc.nbuses + 1]

\* Service.is_valid
is_valid(svc) == Len(svc.stops) >= 3 /\ svc.nbuses >= 1

-----------------------------------------------------------------------------
(* utils: calculate_stats *)

NaN == <<0, 0>>

IsNaN(q) == q = NaN

\* the sum of the values f[x], x in S
RECURSIVE RatSum(_, _)
RatSum(f, S) ==
    IF S = {} THEN Zero
    ELSE LET x == CHOOSE y \in S : TRUE IN RatAdd(f[x], RatSum(f, S \ {x}))

\* (np.min, np.mean, np.max, np.sum) of the values of vals
StatsOf(vals) ==
    IF \E k \in DOMAIN vals : IsNaN(vals[k]) THEN <<NaN, NaN, NaN, NaN>>
    ELSE LET S == {vals[k] : k \in DOMAIN vals}
             lo == CHOOSE x \in S : \A y \in S : RatLeq(x, y)
             hi == CHOOSE x \in S : \A y \in S : RatLeq(y, x)
             total == RatSum(vals, DOMAIN vals)
         IN  <<lo, Rat(total[1], total[2] * Cardinality(DOMAIN vals)), hi, total>>

\* calculate_stats of a square matrix: the values of its strict upper triangle
calculate_stats_matrix(arr) ==
    StatsOf([p \in UpperPairs |-> Rat(arr[p[1]][p[2]], 1)])

\* calculate_stats of a list
calculate_stats(arr) == StatsOf(arr)

-----------------------------------------------------------------------------
(* solution.py: LSSDPSolution *)

\* LSSDPSolution.__init__
SolutionInit(i) ==
    [ lss |-> Service(NStops, 1),
      prev_obj |-> One,
      obj |-> One,
      ttd |-> i.base_ttd,
      flow |-> i.base_flow,
      rel_ttd |-> Triu1(OnesLike(i.base_ttd), Zero) ]

\* the Inactive branch forgetting to reset obj
InactiveRecomputeKeepsObj(self, i) ==
    [ self |-> [self EXCEPT !.prev_obj = self.obj,
                            !.ttd = i.base_ttd,
                            !.rel_ttd = Triu1(OnesLike(i.base_ttd), Zero)],
      inst |-> i,
      calls |-> <<>>,
      trips |-> <<>> ]

\* _calculate_objective, Service invalid: the effect on the Solution and on
\* the Instance it refers to, and the oracle calls made
InactiveRecompute(self, i) ==
    [ self |-> [self EXCEPT !.prev_obj = self.obj,
                            !.obj = One,
                            !.ttd = i.base_ttd,
                            !.rel_ttd = Triu1(OnesLike(i.base_ttd), Zero)],
      inst |-> i,
      calls |-> <<>>,
      trips |-> <<>> ]

\* the trip_time computations of the Active branch: inst.ass_trip_time, then
\* trip_time(travel_time, lss.stops)
ActiveTrips(self) == << ass_stops, self.lss.stops >>

\* the two trip times exchanged between the two frequencies
ActiveCallSwappedTripTimes(self, i) ==
    LET alignments == << ass_stops, self.lss.stops >>
        frequencies == << Rat(i.nbuses - self.lss.nbuses, trip_time(i.travel_time, self.lss.stops)),
                          Rat(self.lss.nbuses, ass_trip_time(i.travel_time)) >>
    IN  IF i.congested
        THEN CongestedCall(alignments, frequencies, i.travel_time, i.demand,
                           i.capacity, i.max_iters)
        ELSE UncongestedCall(alignments, frequencies, i.travel_time, i.demand)

\* the alignments and frequencies _calculate_objective hands to the oracle
ActiveCall(self, i) ==
    LET alignments == << ass_stops, self.lss.stops >>
        frequencies == << Rat(i.nbuses - self.lss.nbuses, ass_trip_time(i.travel_time)),
                          Rat(self.lss.nbuses, trip_time(i.travel_time, self.lss.stops)) >>
    IN  IF i.congested
        THEN CongestedCall(alignments, frequencies, i.travel_time, i.demand,
                           i.capacity, i.max_iters)
        ELSE UncongestedCall(alignments, frequencies, i.travel_time, i.demand)

\* np.divide(ttd, base_ttd, out=np.zeros_like(base_ttd), where=(base_ttd != 0))
MaskedDivide(ttd, base_ttd) ==
    LET out == ZerosLike(base_ttd)
    IN  [a \in DOMAIN base_ttd |-> [b \in DOMAIN base_ttd[a] |->
            IF base_ttd[a][b] # 0 THEN Rat(ttd[a][b], base_ttd[a][b]) ELSE out[a][b]]]

\* the Active branch without the write to prev_obj
ActiveRecomputeKeepsPrevObj(self, i) ==
    LET call == ActiveCall(self, i)
        out == Answer(call)
        ttd == Float32Mat(out[1])
    IN  [ self |-> [self EXCEPT !.obj = Rat(out[3], i.base_obj),
                                !.ttd = ttd,
                                !.flow = Float32Vec(out[2]),
                                !.rel_ttd = MaskedDivide(ttd, i.base_ttd)],
          inst |-> i,
          calls |-> <<call>>,
          trips |-> ActiveTrips(self) ]

\* the Active branch copying the oracle's ttd into the array self._ttd was
\* bound to in __init__, which is the Instance's base_ttd
ActiveRecomputeInPlace(self, i) ==
    LET call == ActiveCall(self, i)
        out == Answer(call)
        ttd == Float32Mat(out[1])
    IN  [ self |-> [self EXCEPT !.prev_obj = self.obj,
                                !.obj = Rat(out[3], i.base_obj),
                                !.ttd = ttd,
                                !.flow = Float32Vec(out[2]),
                                !.rel_ttd = MaskedDivide(ttd, i.base_ttd)],
          inst |-> [i EXCEPT !.base_ttd = ttd],
          calls |-> <<call>>,
          trips |-> ActiveTrips(self) ]

\* _calculate_objective, Service valid
ActiveRecompute(self, i) ==
    LET call == ActiveCall(self, i)
        out == Answer(call)
        ttd == Float32Mat(out[1])
    IN  [ self |-> [self EXCEPT !.prev_obj = self.obj,
                                !.obj = Rat(out[3], i.base_obj),
                                !.ttd = ttd,
                                !.flow = Float32Vec(out[2]),
                                !.rel_ttd = MaskedDivide(ttd, i.base_ttd)],
          inst |-> i,
          calls |-> <<call>>,
          trips |-> ActiveTrips(self) ]

\* _calculate_objective taking a Service of two stops for a valid one
calculate_objective_from_two_stops(self, i) ==
    IF Len(self.lss.stops) < 2 THEN InactiveRecompute(self, i) ELSE ActiveRecompute(self, i)

\* LSSDPSolution._calculate_objective
calculate_objective(self, i) ==
    IF ~is_valid(self.lss) THEN InactiveRecompute(self, i) ELSE ActiveRecompute(self, i)

\* toggle(stop) putting an absent stop at the end of the stop sequence
toggle_appending(self, i, stop) ==
    calculate_objective(
        [self EXCEPT !.lss.stops =
            IF stop \in Range(self.lss.stops)
            THEN SortedSeq(Range(self.lss.stops) \ {stop})
            ELSE Append(self.lss.stops, stop)], i)

\* LSSDPSolution.toggle
toggle(self, i, stop) ==
    calculate_objective([self EXCEPT !.lss = ServiceToggle(self.lss, stop)], i)

\* add_bus() recomputing without a bus added
add_bus_keeping_fleet(self, i) == calculate_objective(self, i)

\* LSSDPSolution.add_bus
add_bus(self, i) ==
    calculate_objective([self EXCEPT !.lss = ServiceAddBus(self.lss)], i)

\* terminate() recomputing the objective as toggle and add_bus do
terminate_recomputing(self, i) == calculate_objective(self, i)

\* LSSDPSolution.terminate
terminate(self, i) ==
    [ self |-> [self EXCEPT !.prev_obj = self.obj], inst |-> i, calls |-> <<>>,
      trips |-> <<>> ]

\* [x] * n
Repeat(x, n) == [k \in 1 .. n |-> x]

\* LSSDPSolution._capacities (solution.py)
capacities(self, i) ==
    IF ~is_valid(self.lss)
    THEN Repeat(Rat(i.nbuses * i.capacity, ass_trip_time(i.travel_time)), 3 * (NStops - 1))
    ELSE Repeat(Rat((i.nbuses - self.lss.nbuses) * i.capacity,
                    trip_time(i.travel_time, self.lss.stops)), 3 * (NStops - 1))
         \o Repeat(Rat(self.lss.nbuses * i.capacity, ass_trip_time(i.travel_time)),
                   3 * (Len(self.lss.stops) - 1))

\* the trip_time computations of _capacities
capacities_trips(self) ==
    IF ~is_valid(self.lss) THEN << ass_stops >> ELSE << self.lss.stops, ass_stops >>

\* q / c for a flow q and a capacity c
LoadFactor(q, c) == Rat(q * c[2], c[1])

\* self._flow[3 * (nstops - 1):].sum() / self._flow.sum()
PerFlowExp(self) ==
    Rat(SumSeq(SubSeq(self.flow, 3 * (NStops - 1) + 1, Len(self.flow))), SumSeq(self.flow))

\* stats dividing flow by the capacities whether or not the Instance is congested
stats_lf_always(self, i) ==
    LET per_flow_exp == IF ~is_valid(self.lss) THEN Zero ELSE PerFlowExp(self)
        caps == capacities(self, i)
    IN  IF Len(self.flow) # Len(caps)
        THEN [raised |-> "ValueError"]
        ELSE [ ttd |-> calculate_stats_matrix(self.ttd),
               lf |-> calculate_stats(
                          [k \in DOMAIN self.flow |-> LoadFactor(self.flow[k], caps[k])]),
               per_flow_exp |-> calculate_stats(<<per_flow_exp>>) ]

\* LSSDPSolution.stats: the dictionary returned, or the exception raised when
\* flow and capacities cannot be broadcast together
stats(self, i) ==
    LET per_flow_exp == IF ~is_valid(self.lss) THEN Zero ELSE PerFlowExp(self)
        caps == capacities(self, i)
    IN  IF i.congested /\ Len(self.flow) # Len(caps)
        THEN [raised |-> "ValueError"]
        ELSE [ ttd |-> calculate_stats_matrix(self.ttd),
               lf |-> calculate_stats(
                          IF i.congested
                          THEN [k \in DOMAIN self.flow |-> LoadFactor(self.flow[k], caps[k])]
                          ELSE <<NaN>>),
               per_flow_exp |-> calculate_stats(<<per_flow_exp>>) ]

-----------------------------------------------------------------------------
(* The state machine *)

MaxHeadway == 6

\* the arguments from_network is called with
GenArgs ==
    [ spacing : {1000, 2000}, speed : {60}, dwell_time : 0 .. 1,
      min_headway : 2 .. 4, max_headway : 4 .. MaxHeadway,
      congested : BOOLEAN, capacity : {10}, max_iters : {5},
      peaks : 0 .. 1, scale : {60}, name : {"route"} ]

\* the arguments of the Instances the Solutions are built on
SolArgs ==
    {a \in GenArgs : a.spacing = 1000 /\ a.dwell_time = 1 /\ a.peaks = 1
                     /\ a.min_headway = 3 /\ a.max_headway = 4}

\* an Instance built with LSSDPInstance(...) directly, its baseline supplied
\* by the caller: the one of i, with no journey recorded from stop 0 to stop 1
Direct(i) ==
    LSSDPInstance(i.travel_time, i.demand, i.nbuses, i.capacity, i.congested,
                  [i.base_ttd EXCEPT ![0][1] = 0], i.base_flow, i.base_obj,
                  i.max_iters, "direct")

\* an Instance built with LSSDPInstance(...) directly for a fleet of 4 buses
\* on the route of the arguments a, its baseline the oracle's for that fleet
DirectFleet(a) ==
    LET i == from_network(a, 4).inst
    IN  LSSDPInstance(i.travel_time, i.demand, 4, i.capacity, i.congested,
                      i.base_ttd, i.base_flow, i.base_obj, DefaultMaxIters, "fleet")

NoOp == [op |-> "none", sol |-> 0, stop |-> 0]

Returned == [value |-> "None"]

\* Solutions ids, each just constructed on one Instance: one that
\* from_network returned, or one constructed directly
InitWith(ids) ==
    /\ \E a \in SolArgs :
          \E n \in BusDraws(GenTripTime(a), a.min_headway, a.max_headway) :
             \E i \in {from_network(a, n).inst} :
                \/ inst = i /\ gen = [args |-> a, status |-> "returned"]
                \/ ~a.congested /\ inst = Direct(i) /\ gen = [args |-> a, status |-> "direct"]
                \/ a.congested /\ inst = DirectFleet(a) /\ gen = [args |-> a, status |-> "direct"]
    /\ sols = [id \in ids |-> SolutionInit(inst)]
    /\ oracleCalls = <<>>
    /\ tripCalls = <<>>
    /\ hist = <<>>
    /\ lastOp = NoOp
    /\ ret = Returned
    /\ pre = SolutionInit(inst)
    /\ built = inst
    /\ alone = [id \in ids |-> [self |-> SolutionInit(inst), inst |-> inst]]
    /\ ops = 0

\* one Solution on its Instance
Init == InitWith({1})

\* two Solutions sharing one Instance that from_network returned
InitShared == InitWith({1, 2}) /\ gen.status = "returned"

\* from_network about to be called
InitGen ==
    /\ inst = NoInst
    /\ sols = <<>>
    /\ gen \in [args : GenArgs, status : {"pending"}]
    /\ oracleCalls = <<>>
    /\ tripCalls = <<>>
    /\ hist = <<>>
    /\ lastOp = NoOp
    /\ ret = Returned
    /\ pre = <<>>
    /\ built = NoInst
    /\ alone = <<>>
    /\ ops = 0

Shared == Cardinality(DOMAIN sols) > 1

\* Solution id or its Instance is not what it would be, had it run alone (else
\* an operation has the same effect on both, and is computed once)
Diverged(id) == alone[id].self # sols[id] \/ alone[id].inst # inst

\* the history of a Solution with more than MaxHist operations behind it
Longer == << [op |-> "more", sol |-> 0, stop |-> 0] >>

\* an operation op of Solution id, with effect r = [self, inst, calls] on the
\* Solution, its Instance and the oracle, and effect q had it run alone,
\* returning value
Apply(id, r, q, op, value) ==
    /\ Shared => ops < MaxOps
    /\ ops' = IF Shared THEN ops + 1 ELSE ops
    /\ sols' = [sols EXCEPT ![id] = r.self]
    /\ inst' = r.inst
    /\ oracleCalls' = r.calls
    /\ tripCalls' = r.trips
    /\ hist' = IF Shared THEN hist
               ELSE IF hist # Longer /\ Len(hist) < MaxHist THEN Append(hist, op)
               ELSE Longer
    /\ lastOp' = op
    /\ ret' = value
    /\ pre' = sols[id]
    /\ alone' = [alone EXCEPT ![id] = [self |-> q.self, inst |-> q.inst]]
    /\ UNCHANGED <<gen, built>>

Toggle(id, stop) ==
    \E r \in {toggle(sols[id], inst, stop)} :
        \E q \in (IF Diverged(id) THEN {toggle(alone[id].self, alone[id].inst, stop)} ELSE {r}) :
            Apply(id, r, q, [op |-> "toggle", sol |-> id, stop |-> stop], Returned)

AddBus(id) ==
    /\ sols[id].lss.nbuses < MaxBuses
    /\ \E r \in {add_bus(sols[id], inst)} :
          \E q \in (IF Diverged(id) THEN {add_bus(alone[id].self, alone[id].inst)} ELSE {r}) :
              Apply(id, r, q, [op |-> "add_bus", sol |-> id, stop |-> 0], Returned)

Terminate(id) ==
    \E r \in {terminate(sols[id], inst)} :
        \E q \in (IF Diverged(id) THEN {terminate(alone[id].self, alone[id].inst)} ELSE {r}) :
            Apply(id, r, q, [op |-> "terminate", sol |-> id, stop |-> 0], Returned)

Stats(id) ==
    \E value \in {stats(sols[id], inst)} :
        Apply(id, [self |-> sols[id], inst |-> inst, calls |-> <<>>,
                   trips |-> IF inst.congested THEN capacities_trips(sols[id]) ELSE <<>>],
              alone[id],
              [op |-> "stats", sol |-> id, stop |-> 0], value)

FromNetwork ==
    /\ gen.status = "pending"
    /\ \E n \in BusDraws(GenTripTime(gen.args), gen.args.min_headway, gen.args.max_headway) :
          LET r == from_network(gen.args, n)
          IN  /\ inst' = r.inst
              /\ built' = r.inst
              /\ oracleCalls' = r.calls
              /\ tripCalls' = r.trips
    /\ gen' = [gen EXCEPT !.status = "returned"]
    /\ lastOp' = [op |-> "from_network", sol |-> 0, stop |-> 0]
    /\ ret' = Returned
    /\ UNCHANGED <<sols, pre, alone, ops, hist>>

\* rng.integers raises ValueError when low >= high
FromNetworkRaises ==
    /\ gen.status = "pending"
    /\ BusDraws(GenTripTime(gen.args), gen.args.min_headway, gen.args.max_headway) = {}
    /\ gen' = [gen EXCEPT !.status = "raised"]
    /\ lastOp' = [op |-> "from_network", sol |-> 0, stop |-> 0]
    /\ ret' = [raised |-> "ValueError"]
    /\ tripCalls' = << ass_stops >>
    /\ UNCHANGED <<inst, sols, oracleCalls, pre, built, alone, ops, hist>>

Next ==
    \/ \E id \in DOMAIN sols, stop \in Stops : Toggle(id, stop)
    \/ \E id \in DOMAIN sols : AddBus(id)
    \/ \E id \in DOMAIN sols : Terminate(id)
    \/ \E id \in DOMAIN sols : Stats(id)

NextGen == FromNetwork \/ FromNetworkRaises

Spec == Init /\ [][Next]_vars

SpecShared == InitShared /\ [][Next]_vars

SpecGen == InitGen /\ [][NextGen]_vars

-----------------------------------------------------------------------------
(* Properties *)

\* the Solution the most recent operation was applied to
Operated == sols[lastOp.sol]

Mutated == lastOp.op \in {"toggle", "add_bus"}

\* the all-ones strict upper triangle
UpperOnes == [i \in Stops |-> [j \in Stops |-> IF i < j THEN One ELSE Zero]]

\* C1: toggle(stop) and add_bus() leave prev_obj unchanged, whichever branch
\* the recompute takes, so that only terminate() writes it.
C1_PrevObjWrittenOnlyByTerminate ==
    Mutated => Operated.prev_obj = pre.prev_obj

\* C1, amended: terminate() and every recompute write prev_obj: after toggle,
\* add_bus or terminate, prev_obj is the obj held just before that call; a
\* stats read leaves it as it was.
C1_PrevObjIsObjBeforeLastCall ==
    /\ lastOp.op \in {"toggle", "add_bus", "terminate"} => Operated.prev_obj = pre.obj
    /\ lastOp.op = "stats" => Operated.prev_obj = pre.prev_obj

\* a recompute in the Active branch that changed prev_obj
C1_Witness ==
    /\ Mutated
    /\ is_valid(Operated.lss)
    /\ Operated.prev_obj # pre.prev_obj

\* C2: terminate() sets prev_obj to obj, leaves every other field of the
\* Solution, every other Solution and the Instance as they were, and calls
\* no oracle; after each terminate() prev_obj = obj.
C2_TerminateIsSnapshot ==
    [][lastOp'.op = "terminate" =>
          /\ sols' = [sols EXCEPT ![lastOp'.sol].prev_obj = sols[lastOp'.sol].obj]
          /\ sols'[lastOp'.sol].prev_obj = sols'[lastOp'.sol].obj
          /\ is_valid(sols'[lastOp'.sol].lss) = is_valid(sols[lastOp'.sol].lss)
          /\ inst' = inst
          /\ oracleCalls' = <<>>]_vars

\* terminate() on an Active Solution whose prev_obj differed from obj
C2_Witness ==
    /\ lastOp.op = "terminate"
    /\ is_valid(Operated.lss)
    /\ pre.prev_obj # pre.obj
    /\ Operated.prev_obj = Operated.obj

\* C3: toggle(s) twice in a row returns the Service's stops and bus count and
\* the Solution's ttd, flow and obj to their values before the first toggle.
C3_ToggleTwiceRestores ==
    [][(lastOp.op = "toggle" /\ lastOp' = lastOp) =>
          /\ sols'[lastOp.sol].lss = pre.lss
          /\ sols'[lastOp.sol].ttd = pre.ttd
          /\ sols'[lastOp.sol].flow = pre.flow
          /\ sols'[lastOp.sol].obj = pre.obj]_vars

\* C4: whenever the Service is invalid, flow is the Instance's base_flow.
C4_InvalidFlowIsBaseline ==
    \A id \in DOMAIN sols :
        ~is_valid(sols[id].lss) => sols[id].flow = inst.base_flow

\* C5: whenever the Service is invalid, obj = 1.0, ttd is the Instance's
\* base_ttd and rel_ttd is one on the strict upper triangle, zero elsewhere.
C5_InactiveIsBaseline ==
    \A id \in DOMAIN sols :
        ~is_valid(sols[id].lss) =>
            /\ sols[id].obj = One
            /\ sols[id].ttd = inst.base_ttd
            /\ sols[id].rel_ttd = UpperOnes

\* a toggle that made a valid Service with another objective invalid again
C5_Witness ==
    /\ lastOp.op = "toggle"
    /\ ~is_valid(Operated.lss)
    /\ is_valid(pre.lss)
    /\ pre.obj # One
    /\ pre.ttd # inst.base_ttd

\* C6: the buses of the limited-stop Service never exceed instance.nbuses.
C6_FleetConserved ==
    \A id \in DOMAIN sols : sols[id].lss.nbuses <= inst.nbuses

\* C7: a recompute with a valid Service calls the oracle exactly once, with
\* the all-stop sequence at (instance.nbuses - service.nbuses) / all-stop trip
\* time and then the Service's stops at service.nbuses / their trip time, the
\* congested oracle (with the Instance's capacity and max_iters) iff
\* instance.congested; then obj = cost / base_obj, ttd and flow as returned.
C7_ActiveRecomputeCallsOracleOnce ==
    (Mutated /\ is_valid(Operated.lss)) =>
        /\ Len(oracleCalls) = 1
        /\ LET call == oracleCalls[1]
               lss == Operated.lss
               hops(seq) == SumSeq([k \in 1 .. (Len(seq) - 1) |->
                                       inst.travel_time[seq[k]][seq[k + 1]]])
               all == [k \in 1 .. NStops |-> k - 1]
           IN  /\ call.alignments = <<all, lss.stops>>
               /\ call.frequencies = << Rat(inst.nbuses - lss.nbuses, hops(all)),
                                        Rat(lss.nbuses, hops(lss.stops)) >>
               /\ call.travel_time = inst.travel_time
               /\ call.demand = inst.demand
               /\ inst.congested =>
                      /\ call.fn = "mat_linear_congested_assign"
                      /\ call.capacity = inst.capacity
                      /\ call.max_iters = inst.max_iters
               /\ ~inst.congested => call.fn = "mat_linear_assign"
               /\ Operated.obj = Rat(Answer(call)[3], inst.base_obj)
               /\ Operated.ttd = Answer(call)[1]
               /\ Operated.flow = Answer(call)[2]

\* a recompute on a congested Instance with a valid Service that skips a stop
C7_Witness ==
    /\ Mutated
    /\ is_valid(Operated.lss)
    /\ inst.congested
    /\ Len(Operated.lss.stops) < NStops

C9_InstanceSharedReadOnly ==
    /\ inst = built
    /\ \A id \in DOMAIN sols : sols[id] = alone[id].self

\* one Solution operated on after the other, sharing its Instance, had
\* become Active
C9_Witness ==
    /\ DOMAIN sols = {1, 2}
    /\ lastOp.sol = 2
    /\ lastOp.op \in {"toggle", "add_bus"}
    /\ is_valid(sols[1].lss)
    /\ sols[1].ttd # inst.base_ttd

\* C10: the bus count of an Instance from_network returns lies between
\* ceil(trip_time / max_headway) and floor(trip_time / min_headway), where
\* trip_time sums the travel times between consecutive stops.
C10_BusCountWithinHeadways ==
    gen.status = "returned" =>
        LET T == SumSeq([k \in 1 .. (NStops - 1) |-> inst.travel_time[k - 1][k]])
            n == inst.nbuses
        IN  /\ n * gen.args.max_headway >= T
            /\ n * gen.args.min_headway <= T

\* from_network drew the largest bus count of a range of several
C10_Witness ==
    /\ lastOp.op = "from_network"
    /\ gen.status = "returned"
    /\ LET T == SumSeq([k \in 1 .. (NStops - 1) |-> inst.travel_time[k - 1][k]])
           n == inst.nbuses
       IN  /\ (n + 1) * gen.args.min_headway > T
           /\ (n - 1) * gen.args.max_headway >= T

\* C11: when no integer lies in [ceil(trip_time / max_headway),
\* floor(trip_time / min_headway)], from_network raises InvalidHeadwayRange
\* from a check of its own, returns no Instance and makes no oracle call.
C11_EmptyRangeRaisesInvalidHeadwayRange ==
    (lastOp.op = "from_network"
        /\ CeilDiv(GenTripTime(gen.args), gen.args.max_headway)
             > FloorDiv(GenTripTime(gen.args), gen.args.min_headway)) =>
        /\ ret = [raised |-> "InvalidHeadwayRange"]
        /\ inst = NoInst
        /\ oracleCalls = <<>>

\* C12: on an Instance that is not congested, stats returns, in every state
\* of the Solution, the load-factor entry lf with NaN as its min, mean, max
\* and sum, next to ttd and per_flow_exp entries that are numbers.
C12_UncongestedLoadFactorIsNaN ==
    (lastOp.op = "stats" /\ ~inst.congested) =>
        /\ DOMAIN ret = {"ttd", "lf", "per_flow_exp"}
        /\ ret.lf = <<NaN, NaN, NaN, NaN>>
        /\ \A k \in 1 .. 4 : ~IsNaN(ret.ttd[k]) /\ ~IsNaN(ret.per_flow_exp[k])

\* stats read on an uncongested Instance while the limited-stop Service
\* carries part of the flow
C12_Witness ==
    /\ lastOp.op = "stats"
    /\ ~inst.congested
    /\ is_valid(Operated.lss)
    /\ ret.lf = <<NaN, NaN, NaN, NaN>>
    /\ ret.per_flow_exp[1] # Zero

\* what stats reports for a statistic with the single value x
Single(x) == <<x, x, x, x>>

\* the flow entries of the limited-stop alignment, and all of them, summed
LimitedFlow(sol) ==
    SumSeq([k \in 1 .. (Len(sol.flow) - 3 * (NStops - 1)) |-> sol.flow[3 * (NStops - 1) + k]])

TotalFlow(sol) == SumSeq([k \in 1 .. Len(sol.flow) |-> sol.flow[k]])

\* C13: stats reports per_flow_exp as 0 in every state with an invalid
\* Service, and with a valid Service as the flow of the limited-stop
\* alignment (the entries after the first 3 * (nstops - 1)) over the whole
\* flow, a value between 0 and 1.
C13_PerFlowExpIsLimitedShare ==
    lastOp.op = "stats" =>
        /\ "per_flow_exp" \in DOMAIN ret
        /\ ~is_valid(Operated.lss) => ret.per_flow_exp = Single(Zero)
        /\ is_valid(Operated.lss) =>
              /\ ret.per_flow_exp = Single(Rat(LimitedFlow(Operated), TotalFlow(Operated)))
              /\ RatLeq(Zero, ret.per_flow_exp[1])
              /\ RatLeq(ret.per_flow_exp[1], One)

\* Instances with the travel_time, demand, nbuses and capacity of i, and any
\* congested flag, max_iters, name and baseline
Variants(i) ==
    { [i EXCEPT !.congested = c, !.max_iters = m, !.name = n,
                !.base_ttd = t, !.base_flow = f, !.base_obj = o] :
        c \in BOOLEAN, m \in {i.max_iters, 5}, n \in {i.name, "other"},
        t \in {i.base_ttd, i.travel_time}, f \in {i.base_flow, <<>>},
        o \in {i.base_obj, 0} }

\* the Instance from_network returns for the same route, demand and bus
\* count, with the other congestion mode
Twin == from_network([gen.args EXCEPT !.congested = ~gen.args.congested], inst.nbuses).inst

\* C14: the id calculate_id sets is a string of 10 hex digits determined by
\* travel_time, demand, nbuses and capacity alone: Instances equal in these
\* four get the same id, whatever their congested flag, max_iters, name and
\* baseline.
C14_IdDependsOnFourFields ==
    gen.status = "returned" =>
        /\ Len(inst.id) = 10
        /\ \A k \in 1 .. 10 : inst.id[k] \in 0 .. 15
        /\ \A v \in Variants(inst) : calculate_id(v).id = inst.id
        /\ Twin.id = inst.id

\* from_network returned a congested Instance whose uncongested twin has
\* another baseline cost and the same id
C14_Witness ==
    /\ gen.status = "returned"
    /\ inst.congested
    /\ Len(inst.id) = 10
    /\ Twin.base_obj # inst.base_obj
    /\ Twin.travel_time = inst.travel_time /\ Twin.demand = inst.demand
    /\ Twin.nbuses = inst.nbuses /\ Twin.capacity = inst.capacity
    /\ Twin.id = inst.id

\* toggle(2), toggle(1), add_bus() on a fresh Solution of an Instance with 4 buses
Scenario ==
    /\ inst.nbuses = 4
    /\ hist = << [op |-> "toggle", sol |-> 1, stop |-> 2],
                 [op |-> "toggle", sol |-> 1, stop |-> 1],
                 [op |-> "add_bus", sol |-> 1, stop |-> 0] >>

Degenerate(svc) == Len(svc.stops) < 3 \/ svc.nbuses < 1

\* C16: a toggle or add_bus that leaves the Service with fewer than 3 stops
\* or fewer than 1 bus calls no oracle and computes no trip time over the
\* Service's stops, and nor does a stats read in such a state; the recompute
\* takes the Active branch (one oracle call) exactly when the Service has at
\* least 3 stops and at least 1 bus.
C16_NoOracleOnInvalidService ==
    /\ (lastOp.op \in {"toggle", "add_bus", "stats"} /\ Degenerate(Operated.lss)) =>
          /\ oracleCalls = <<>>
          /\ \A k \in DOMAIN tripCalls : tripCalls[k] # Operated.lss.stops
    /\ Mutated =>
          (Len(oracleCalls) = 1 <=>
              (Len(Operated.lss.stops) >= 3 /\ Operated.lss.nbuses >= 1))
    /\ Mutated => (Degenerate(Operated.lss) <=> tripCalls = <<>>)

\* a toggle took a stop out of a Service of three stops, which the oracle
\* had been called for
C16_Witness ==
    /\ lastOp.op = "toggle"
    /\ Len(pre.lss.stops) = 3
    /\ pre.obj # One
    /\ Len(Operated.lss.stops) = 2
    /\ oracleCalls = <<>>
    /\ tripCalls = <<>>

\* C17: for a congested Instance that from_network made with the iteration
\* budget max_iters = M, the Instance stores M, and every congested oracle
\* call for it, the baseline call and each later recompute, is given M.
C17_MaxItersIsTheOneGiven ==
    (gen.status = "returned" /\ inst.congested) =>
        /\ inst.max_iters = gen.args.max_iters
        /\ \A k \in DOMAIN oracleCalls : oracleCalls[k].max_iters = gen.args.max_iters

\* C18: the Service's stop sequence is always strictly increasing (so free
\* of duplicates) and within [0, nstops); toggle(stop) changes the membership
\* of the given stop and of no other, and leaves the bus count as it was.
C18_ToggleKeepsStopsSorted ==
    /\ \A id \in DOMAIN sols :
          LET stops == sols[id].lss.stops
          IN  /\ \A k \in 1 .. (Len(stops) - 1) : stops[k] < stops[k + 1]
              /\ \A k \in 1 .. Len(stops) : stops[k] \in 0 .. (NStops - 1)
    /\ lastOp.op = "toggle" =>
          LET before == {pre.lss.stops[k] : k \in 1 .. Len(pre.lss.stops)}
              after == {Operated.lss.stops[k] : k \in 1 .. Len(Operated.lss.stops)}
          IN  /\ (lastOp.stop \in after) = (lastOp.stop \notin before)
              /\ after \ {lastOp.stop} = before \ {lastOp.stop}
              /\ Operated.lss.nbuses = pre.lss.nbuses

\* a toggle put a stop in before a stop the Service already had
C18_Witness ==
    /\ lastOp.op = "toggle"
    /\ \A k \in 1 .. Len(pre.lss.stops) : pre.lss.stops[k] # lastOp.stop
    /\ \E k \in 1 .. Len(pre.lss.stops) : pre.lss.stops[k] > lastOp.stop
    /\ \E k \in 1 .. Len(Operated.lss.stops) : Operated.lss.stops[k] = lastOp.stop
    /\ Len(Operated.lss.stops) = Len(pre.lss.stops) + 1

\* C19: on a congested Instance, flow and the capacities of _capacities have
\* the same length in every state, 3 * (nstops - 1) with an invalid Service
\* and 3 * (nstops - 1) + 3 * (stops of the Service - 1) with a valid one, so
\* that stats can always divide one by the other.
C19_FlowAndCapacitiesSameLength ==
    inst.congested =>
        /\ \A id \in DOMAIN sols :
              LET n == IF is_valid(sols[id].lss)
                       THEN 3 * (NStops - 1) + 3 * (Len(sols[id].lss.stops) - 1)
                       ELSE 3 * (NStops - 1)
              IN  /\ Len(capacities(sols[id], inst)) = n
                  /\ Len(sols[id].flow) = n
        /\ lastOp.op = "stats" => "lf" \in DOMAIN ret

\* C20: with a valid Service, _capacities gives each flow entry the frequency
\* of its own service times the vehicle capacity: (instance.nbuses -
\* service.nbuses) / all-stop trip time * capacity for the first
\* 3 * (nstops - 1) entries, service.nbuses / trip time of the Service's
\* stops * capacity for the rest.
C20_CapacityIsOwnFrequencyTimesCapacity ==
    \A id \in DOMAIN sols :
        is_valid(sols[id].lss) =>
            LET lss == sols[id].lss
                hops(seq) == SumSeq([k \in 1 .. (Len(seq) - 1) |->
                                        inst.travel_time[seq[k]][seq[k + 1]]])
                all == [k \in 1 .. NStops |-> k - 1]
                caps == capacities(sols[id], inst)
            IN  /\ Len(caps) = 3 * (NStops - 1) + 3 * (Len(lss.stops) - 1)
                /\ \A k \in 1 .. Len(caps) :
                      caps[k] = IF k <= 3 * (NStops - 1)
                                THEN Rat((inst.nbuses - lss.nbuses) * inst.capacity, hops(all))
                                ELSE Rat(lss.nbuses * inst.capacity, hops(lss.stops))

=============================================================================
